---- MODULE Spec2Model ----
(***************************************************************************)
(* Polymarket account monitor: the API client's dual-shape fetch, its      *)
(* normalization of raw items and its market calls                         *)
(* (src/src/api/polymarket-client.ts), and the monitor's construction,     *)
(* start/stop lifecycle, polling cycle and change detector                 *)
(* (src/src/monitor/account-monitor.ts).                                   *)
(*                                                                         *)
(* Money is a decimal string in the code.  A decimal string is modelled    *)
(* as [cents, decimals]: the number it denotes, in cents, and the number   *)
(* of digits written after the point, so that "0" and "0.000000" are       *)
(* different strings that parse to the same number.  Every value drawn is  *)
(* a multiple of half a dollar, for which the double arithmetic of         *)
(* detectChanges is exact.                                                 *)
(***************************************************************************)
EXTENDS Integers, Sequences, FiniteSets, TLC

VARIABLES
    targetAddress,   \* options.targetAddress given to the constructor ("" if missing)
    isMonitoring,    \* AccountMonitor.isMonitoring
    pollIntervalId,  \* AccountMonitor.pollIntervalId: 0 is undefined, else a timer handle
    lastStatus,      \* AccountMonitor.lastStatus: <<>> is undefined, else <<status>>
    lastTradeIds,    \* AccountMonitor.lastTradeIds
    timers,          \* handles of the repeating timers armed in the runtime
    timersCreated,   \* number of setInterval calls so far (the next handle is this + 1)
    startsRun,       \* number of start() calls that passed the isMonitoring guard
    cycles,          \* updateStatus() invocations in flight, oldest first
    ev,              \* what the last step did and what it handed to the callbacks
    clStage,         \* API client call: "idle", "primary", "fallback", "done"
    clOp,            \* API client call: "positions" or "trades"
    clPrimary,       \* response to the primary request shape
    clAlt,           \* response to the fallback request shape
    clResult,        \* settled result of the client call
    mkStage,         \* market call: "idle", "fetching", "done"
    mkOp,            \* market call: "getMarket" or "getMarkets"
    mkIds,           \* market ids asked for, in the caller's order
    mkResponses,     \* response to the request of each id, Pending until it settles
    mkResult         \* settled result of the market call

monitorVars == <<targetAddress, isMonitoring, pollIntervalId, lastStatus,
                 lastTradeIds, timers, timersCreated, startsRun, cycles, ev>>
clientVars == <<clStage, clOp, clPrimary, clAlt, clResult>>
marketVars == <<mkStage, mkOp, mkIds, mkResponses, mkResult>>
vars == <<targetAddress, isMonitoring, pollIntervalId, lastStatus, lastTradeIds, timers,
          timersCreated, startsRun, cycles, ev,
          clStage, clOp, clPrimary, clAlt, clResult,
          mkStage, mkOp, mkIds, mkResponses, mkResult>>

----------------------------------------------------------------------------
(* Bounds of the model *)

\* start() calls that pass the guard (each arms one timer)
MaxStarts == 1
\* updateStatus() invocations in flight at once
MaxInFlight == 1
\* trades fetched beyond the cap of a snapshot's recentTrades
MaxExtra == 1
\* raw items in one response to the API client
MaxItems == 2
\* market ids in one getMarkets call
MaxIds == 2

(* Program constants *)

\* trades.trades.slice(0, 10)
RecentCap == 10
\* error.response?.status === 404
NotFound == 404

----------------------------------------------------------------------------
(* Decimal strings *)

DecStr(c, d) == [cents |-> c, decimals |-> d]

\* the literal '0'
ZeroStr == DecStr(0, 0)

\* Number.prototype.toFixed(6): six digits after the point
toFixed6(c) == DecStr(c, 6)

\* strings that are not decimal numbers are told apart by a negative
\* decimals tag: a text such as 'abc', and the empty string
TextStr == [cents |-> 0, decimals |-> -1]
EmptyStr == [cents |-> 0, decimals |-> -2]

\* parseFloat of a decimal string
parseFloat(s) == s.cents

\* isNaN(parseFloat(s))
parsesToNaN(s) == s.decimals < 0

\* an optional string (<<>> is a missing key, else <<string>>) is truthy
\* unless it is missing or empty
Truthy(opt) == opt # <<>> /\ opt # <<EmptyStr>>

\* a || b on optional strings
OrElseOpt(a, b) == IF Truthy(a) THEN a ELSE b

Abs(x) == IF x < 0 THEN -x ELSE x
Max(a, b) == IF a >= b THEN a ELSE b
Min(a, b) == IF a <= b THEN a ELSE b

RECURSIVE SumCents(_)
SumCents(s) ==
    IF s = <<>> THEN 0
    ELSE (IF parsesToNaN(Head(s).value) THEN 0 ELSE parseFloat(Head(s).value))
         + SumCents(Tail(s))

\* sequences over S of length at most n
SeqUpTo(S, n) == UNION {[1..k -> S] : k \in 0..n}

IdsOf(trades) == {trades[i].id : i \in 1..Len(trades)}

----------------------------------------------------------------------------
(* HTTP responses and errors *)

\* a response with a body
OkResponse(data) == [ok |-> TRUE, status |-> 200, data |-> data]
\* a failed attempt: status 404, 500, or 0 when the error carries no response
\* (no answer at all, or an answer whose null body cannot be read)
FailResponse(status) == [ok |-> FALSE, status |-> status, data |-> <<>>]
\* the fallback request was never issued
NotIssued == [ok |-> FALSE, status |-> -1, data |-> <<>>]

FailStatuses == {NotFound, 500, 0}

HttpError(attempt, resp) == [kind |-> "http", attempt |-> attempt, status |-> resp.status]
TypeError == [kind |-> "type", attempt |-> "none", status |-> 0]
\* new Error(`Failed to fetch user <op>: ${error.message}`)
WrappedError(op, cause) == [kind |-> "wrapped", op |-> op, cause |-> cause]

Fulfilled(v) == [state |-> "fulfilled", value |-> v, reason |-> <<>>]
Rejected(e) == [state |-> "rejected", value |-> <<>>, reason |-> <<e>>]

----------------------------------------------------------------------------
(* API client: normalization *)

\* raw items carry what the client and the monitor read of them: a position's
\* optional value, quantity, size, price and lastPrice, a trade's id, and
\* whether the item has a market (item.market || item.marketData)
RawPositionItem(v, q, sz, p, lp, m) ==
    [value |-> v, quantity |-> q, size |-> sz, price |-> p, lastPrice |-> lp,
     market |-> m]
\* a raw position that carries its value and nothing to compute it from
RawPosition(v, m) == RawPositionItem(<<v>>, <<>>, <<>>, <<>>, <<>>, m)
RawTrade(id, m) == [id |-> id, market |-> m]

\* normalizeMarket dereferences its argument: it throws on an item without a market
normalizeThrows(data) == \E i \in 1..Len(data) : ~data[i].market

\* item.quantity || item.size || '0'
quantityOf(item) == OrElseOpt(item.quantity, OrElseOpt(item.size, <<ZeroStr>>))[1]
\* item.price || item.lastPrice || '0'
priceOf(item) == OrElseOpt(item.price, OrElseOpt(item.lastPrice, <<ZeroStr>>))[1]

\* a variant that writes the product with two decimals
calculatePositionValue_TwoDecimals(item) ==
    IF parsesToNaN(quantityOf(item)) \/ parsesToNaN(priceOf(item))
    THEN ZeroStr
    ELSE DecStr((parseFloat(quantityOf(item)) * parseFloat(priceOf(item))) \div 100, 2)

\* quantity * price, both in hundredths, so the product is divided by 100
calculatePositionValue(item) ==
    IF parsesToNaN(quantityOf(item)) \/ parsesToNaN(priceOf(item))
    THEN ZeroStr
    ELSE toFixed6((parseFloat(quantityOf(item)) * parseFloat(priceOf(item))) \div 100)

normalizePositions(data) ==
    [i \in 1..Len(data) |->
        [value    |-> IF Truthy(data[i].value) THEN data[i].value[1]
                      ELSE calculatePositionValue(data[i]),
         quantity |-> quantityOf(data[i]),
         price    |-> priceOf(data[i])]]

normalizeTrades(data) == [i \in 1..Len(data) |-> [id |-> data[i].id]]

\* a variant that writes the sum with two decimals
calculateTotalValue_TwoDecimals(positions) == DecStr(SumCents(positions), 2)

calculateTotalValue(positions) == toFixed6(SumCents(positions))

EmptyPositions == [positions |-> <<>>, totalValue |-> ZeroStr]
EmptyTrades == [trades |-> <<>>, totalTrades |-> 0]

----------------------------------------------------------------------------
(* API client: getUserPositions and getUserTrades *)

\* the outer catch of both operations: a not-found error gives the empty
\* result, every other error is wrapped with the operation's name
clientCatch(op, error, empty) ==
    IF error.kind = "http" /\ error.status = NotFound
    THEN Fulfilled(empty)
    ELSE Rejected(WrappedError(op, error))

\* the inner catch of the fallback request, reached when both requests failed
bothFailedIsNotFound(primary, alt) ==
    primary.status = NotFound \/ alt.status = NotFound

positionsFromData(data) ==
    IF normalizeThrows(data)
    THEN clientCatch("positions", TypeError, EmptyPositions)
    ELSE LET n == normalizePositions(data)
         IN  Fulfilled([positions |-> n, totalValue |-> calculateTotalValue(n)])

tradesFromData(data) ==
    IF normalizeThrows(data)
    THEN clientCatch("trades", TypeError, EmptyTrades)
    ELSE LET n == normalizeTrades(data)
         IN  Fulfilled([trades |-> n, totalTrades |-> Len(n)])

\* a variant that lets a not-found failure of both shapes escape as an error
getUserPositions_NoSuppress(primary, alt) ==
    IF primary.ok THEN positionsFromData(primary.data)
    ELSE IF alt.ok THEN positionsFromData(alt.data)
    ELSE Rejected(WrappedError("positions", HttpError("primary", primary)))

\* a variant that throws the fallback request's error when both requests fail
getUserPositions_ThrowsAltError(primary, alt) ==
    IF primary.ok THEN positionsFromData(primary.data)
    ELSE IF alt.ok THEN positionsFromData(alt.data)
    ELSE IF bothFailedIsNotFound(primary, alt) THEN Fulfilled(EmptyPositions)
    ELSE clientCatch("positions", HttpError("fallback", alt), EmptyPositions)

getUserPositions(primary, alt) ==
    IF primary.ok THEN positionsFromData(primary.data)
    ELSE IF alt.ok THEN positionsFromData(alt.data)
    ELSE IF bothFailedIsNotFound(primary, alt) THEN Fulfilled(EmptyPositions)
    ELSE clientCatch("positions", HttpError("primary", primary), EmptyPositions)

getUserTrades(primary, alt) ==
    IF primary.ok THEN tradesFromData(primary.data)
    ELSE IF alt.ok THEN tradesFromData(alt.data)
    ELSE IF bothFailedIsNotFound(primary, alt) THEN Fulfilled(EmptyTrades)
    ELSE clientCatch("trades", HttpError("primary", primary), EmptyTrades)

clientCall(op, primary, alt) ==
    IF op = "positions" THEN getUserPositions(primary, alt) ELSE getUserTrades(primary, alt)

----------------------------------------------------------------------------
(* Inputs of the API client specification *)

\* position values: $100, $100.50, $102
PosCents == {10000, 10050, 10200}

\* items of the longer responses: a value, with or without a market; a value
\* that is not a number; quantity "10" and price "2.5" without a value
RawPositionItems ==
    {RawPosition(DecStr(c, 2), m) : c \in PosCents, m \in BOOLEAN}
    \cup {RawPosition(TextStr, TRUE),
          RawPositionItem(<<>>, <<DecStr(1000, 0)>>, <<>>, <<DecStr(250, 1)>>, <<>>, TRUE)}

\* items of the one-item responses: every combination of a missing, empty,
\* non-numeric or numeric value, quantity "10", size "4", price "2.5" and
\* lastPrice "0.5"
RawPositionShapes ==
    {RawPositionItem(v, q, sz, p, lp, TRUE) :
        v \in {<<>>, <<EmptyStr>>, <<TextStr>>, <<DecStr(10000, 2)>>},
        q \in {<<>>, <<TextStr>>, <<DecStr(1000, 0)>>},
        sz \in {<<>>, <<DecStr(400, 0)>>},
        p \in {<<>>, <<TextStr>>, <<DecStr(250, 1)>>},
        lp \in {<<>>, <<DecStr(50, 1)>>}}
\* ids of the trades of a short trade list
TradeIds == {1, 2}

RawTradeItems == {RawTrade(id, m) : id \in TradeIds, m \in BOOLEAN}

ClientResponses(op) ==
    {FailResponse(s) : s \in FailStatuses}
    \cup {OkResponse(d) : d \in SeqUpTo(IF op = "positions" THEN RawPositionItems
                                                             ELSE RawTradeItems, MaxItems)}
    \cup (IF op = "positions" THEN {OkResponse(<<it>>) : it \in RawPositionShapes}
                              ELSE {})

NoResult == Rejected(TypeError)

ClientInit ==
    /\ clStage = "idle"
    /\ clOp = "positions"
    /\ clPrimary = NotIssued
    /\ clAlt = NotIssued
    /\ clResult = NoResult

\* getUserPositions / getUserTrades is called: the primary request is issued
ClientCall(op) ==
    /\ clStage = "idle"
    /\ clStage' = "primary"
    /\ clOp' = op
    /\ clPrimary' = NotIssued
    /\ clAlt' = NotIssued
    /\ clResult' = NoResult
    /\ UNCHANGED <<monitorVars, marketVars>>

\* the primary request settles; on success the call returns, on failure the
\* fallback request is issued
PrimaryResponds(resp) ==
    /\ clStage = "primary"
    /\ clPrimary' = resp
    /\ IF resp.ok
       THEN /\ clStage' = "done"
            /\ clResult' = clientCall(clOp, resp, NotIssued)
       ELSE /\ clStage' = "fallback"
            /\ clResult' = clResult
    /\ UNCHANGED <<clOp, clAlt>>
    /\ UNCHANGED <<monitorVars, marketVars>>

\* the fallback request settles and the call returns or throws
AltResponds(resp) ==
    /\ clStage = "fallback"
    /\ clAlt' = resp
    /\ clStage' = "done"
    /\ clResult' = clientCall(clOp, clPrimary, resp)
    /\ UNCHANGED <<clOp, clPrimary>>
    /\ UNCHANGED <<monitorVars, marketVars>>

\* the caller has taken the result
ClientReturn ==
    /\ clStage = "done"
    /\ clStage' = "idle"
    /\ UNCHANGED <<clOp, clPrimary, clAlt, clResult>>
    /\ UNCHANGED <<monitorVars, marketVars>>

ClientNext ==
    \/ \E op \in {"positions", "trades"} : ClientCall(op)
    \/ \E resp \in ClientResponses(clOp) : PrimaryResponds(resp)
    \/ \E resp \in ClientResponses(clOp) : AltResponds(resp)
    \/ ClientReturn

----------------------------------------------------------------------------
(* API client: getMarket and getMarkets *)

\* a || b on strings: '' (and a missing key, which '' stands for) is falsy
OrElse(a, b) == IF a # "" THEN a ELSE b

\* the body of a market response, as far as its identifier goes
RawMarket(id, marketId) == [id |-> id, marketId |-> marketId]

\* id: data.id || data.marketId || ''
normalizeMarket(data) == [id |-> OrElse(data.id, OrElse(data.marketId, ""))]

\* the request of an id has not settled yet
Pending == [ok |-> FALSE, status |-> -2, data |-> <<>>]

\* getMarket on the settled response of its one request; the body is <<data>>,
\* or <<>> for a null body, which normalizeMarket cannot dereference
getMarket(resp) ==
    IF ~resp.ok THEN Rejected(WrappedError("market", HttpError("primary", resp)))
    ELSE IF resp.data = <<>> THEN Rejected(WrappedError("market", TypeError))
    ELSE Fulfilled(normalizeMarket(resp.data[1]))

\* a variant that fails as soon as one id fails (Promise.all without the catch)
getMarkets_AllOrNothing(resps) ==
    LET results == [i \in 1..Len(resps) |-> getMarket(resps[i])]
    IN  IF \E i \in 1..Len(results) : results[i].state = "rejected"
        THEN Rejected(WrappedError("markets", TypeError))
        ELSE Fulfilled([i \in 1..Len(results) |-> results[i].value])

\* getMarkets on the settled responses: each getMarket(id).catch(() => null),
\* then the nulls are filtered out
getMarkets(resps) ==
    LET results == [i \in 1..Len(resps) |-> getMarket(resps[i])]
        kept == SelectSeq(results, LAMBDA r : r.state = "fulfilled")
    IN  Fulfilled([i \in 1..Len(kept) |-> kept[i].value])

(* Inputs of the market specification *)

MarketIds == {"m1", "m2"}

\* what the request of an id settles to: a failure, a body naming the market
\* under either key or under none, or a null body
MarketResponses(id) ==
    {FailResponse(st) : st \in FailStatuses}
    \cup {OkResponse(<<RawMarket(id, "")>>), OkResponse(<<RawMarket("", id)>>),
          OkResponse(<<RawMarket("", "")>>), OkResponse(<<>>)}

MarketInit ==
    /\ mkStage = "idle"
    /\ mkOp = "getMarket"
    /\ mkIds = <<>>
    /\ mkResponses = <<>>
    /\ mkResult = NoResult

\* getMarket(id) is called and issues its request
GetMarketCall(id) ==
    /\ mkStage = "idle"
    /\ mkStage' = "fetching"
    /\ mkOp' = "getMarket"
    /\ mkIds' = <<id>>
    /\ mkResponses' = <<Pending>>
    /\ mkResult' = NoResult
    /\ UNCHANGED <<monitorVars, clientVars>>

\* getMarkets(ids) is called and issues one request per id
GetMarketsCall(ids) ==
    /\ mkStage = "idle"
    /\ mkStage' = "fetching"
    /\ mkOp' = "getMarkets"
    /\ mkIds' = ids
    /\ mkResponses' = [i \in 1..Len(ids) |-> Pending]
    /\ mkResult' = NoResult
    /\ UNCHANGED <<monitorVars, clientVars>>

\* the request of the i-th id settles
MarketResponds(i, resp) ==
    /\ mkStage = "fetching"
    /\ i \in 1..Len(mkIds)
    /\ mkResponses[i].status = Pending.status
    /\ resp \in MarketResponses(mkIds[i])
    /\ mkResponses' = [mkResponses EXCEPT ![i] = resp]
    /\ UNCHANGED <<mkStage, mkOp, mkIds, mkResult>>
    /\ UNCHANGED <<monitorVars, clientVars>>

\* every request has settled: the call returns or throws
MarketSettles ==
    /\ mkStage = "fetching"
    /\ \A i \in 1..Len(mkIds) : mkResponses[i].status # Pending.status
    /\ mkStage' = "done"
    /\ mkResult' = IF mkOp = "getMarket" THEN getMarket(mkResponses[1])
                   ELSE getMarkets(mkResponses)
    /\ UNCHANGED <<mkOp, mkIds, mkResponses>>
    /\ UNCHANGED <<monitorVars, clientVars>>

\* the caller has taken the result
MarketReturn ==
    /\ mkStage = "done"
    /\ mkStage' = "idle"
    /\ UNCHANGED <<mkOp, mkIds, mkResponses, mkResult>>
    /\ UNCHANGED <<monitorVars, clientVars>>

MarketNext ==
    \/ \E id \in MarketIds : GetMarketCall(id)
    \/ \E ids \in SeqUpTo(MarketIds, MaxIds) : GetMarketsCall(ids)
    \/ \E i \in 1..MaxIds, id \in MarketIds :
          \E resp \in MarketResponses(id) : MarketResponds(i, resp)
    \/ MarketSettles
    \/ MarketReturn

----------------------------------------------------------------------------
(* Monitor: getStatus and detectChanges *)

\* Array.prototype.slice(0, n)
slice(s, n) == SubSeq(s, 1, Min(n, Len(s)))

\* the trade sequence getStatus works on: the fetched one, or [] after a failed fetch
fetchedTrades(trdRes) ==
    IF trdRes.state = "fulfilled" THEN trdRes.value.trades ELSE EmptyTrades.trades

\* the positions getStatus works on: the fetched ones, or the empty default
\* after a failed fetch
fetchedPositions(posRes) ==
    IF posRes.state = "fulfilled" THEN posRes.value ELSE EmptyPositions

\* a variant in which one failed fetch discards the other fetch's data
getStatus_AllOrNothing(posRes, trdRes) ==
    LET failed == posRes.state = "rejected" \/ trdRes.state = "rejected"
        positions == IF failed THEN EmptyPositions ELSE posRes.value
        trades == IF failed THEN EmptyTrades.trades ELSE trdRes.value.trades
    IN  [totalPositions |-> Len(positions.positions),
         totalValue     |-> positions.totalValue,
         recentTrades   |-> slice(trades, RecentCap),
         openPositions  |-> positions.positions]

\* a variant that keeps every fetched trade
getStatus_NoCap(posRes, trdRes) ==
    LET positions == IF posRes.state = "fulfilled" THEN posRes.value ELSE EmptyPositions
    IN  [totalPositions |-> Len(positions.positions),
         totalValue     |-> positions.totalValue,
         recentTrades   |-> fetchedTrades(trdRes),
         openPositions  |-> positions.positions]

\* the snapshot built from the two settled fetches (Promise.allSettled)
getStatus(posRes, trdRes) ==
    LET positions == IF posRes.state = "fulfilled" THEN posRes.value ELSE EmptyPositions
    IN  [totalPositions |-> Len(positions.positions),
         totalValue     |-> positions.totalValue,
         recentTrades   |-> slice(fetchedTrades(trdRes), RecentCap),
         openPositions  |-> positions.positions]

\* Math.abs(currentValue - lastValue) / Math.max(lastValue, 0.01) > 0.01, in cents
valueChanged(lastValue, currentValue) ==
    100 * Abs(currentValue - lastValue) > Max(lastValue, 1)

\* a variant that refreshes the retained ids whenever it reports a change
detectChanges_AlwaysRefresh(last, tradeIds, status) ==
    IF last = <<>>
    THEN [changed |-> TRUE, tradeIds |-> IdsOf(status.recentTrades), rule |-> "first"]
    ELSE IF \E i \in 1..Len(status.recentTrades) : status.recentTrades[i].id \notin tradeIds
    THEN [changed |-> TRUE, tradeIds |-> IdsOf(status.recentTrades), rule |-> "trades"]
    ELSE IF status.totalPositions # last[1].totalPositions
    THEN [changed |-> TRUE, tradeIds |-> IdsOf(status.recentTrades), rule |-> "positions"]
    ELSE IF valueChanged(parseFloat(last[1].totalValue), parseFloat(status.totalValue))
    THEN [changed |-> TRUE, tradeIds |-> IdsOf(status.recentTrades), rule |-> "value"]
    ELSE [changed |-> FALSE, tradeIds |-> tradeIds, rule |-> "none"]

\* detectChanges(status) on lastStatus = last and lastTradeIds = tradeIds: its
\* return value, the lastTradeIds it leaves, and the rule that decided
detectChanges(last, tradeIds, status) ==
    IF last = <<>>
    THEN [changed |-> TRUE, tradeIds |-> tradeIds, rule |-> "first"]
    ELSE IF \E i \in 1..Len(status.recentTrades) : status.recentTrades[i].id \notin tradeIds
    THEN [changed |-> TRUE, tradeIds |-> IdsOf(status.recentTrades), rule |-> "trades"]
    ELSE IF status.totalPositions # last[1].totalPositions
    THEN [changed |-> TRUE, tradeIds |-> tradeIds, rule |-> "positions"]
    ELSE IF valueChanged(parseFloat(last[1].totalValue), parseFloat(status.totalValue))
    THEN [changed |-> TRUE, tradeIds |-> tradeIds, rule |-> "value"]
    ELSE [changed |-> FALSE, tradeIds |-> tradeIds, rule |-> "none"]

\* a variant that notifies only when a previous snapshot exists
shouldNotify_NeedsPrevious(hasChanges, last) == hasChanges /\ last # <<>>

\* updateStatus: if (hasChanges || !this.lastStatus)
shouldNotify(hasChanges, last) == hasChanges \/ last = <<>>

----------------------------------------------------------------------------
(* Inputs of the monitor specification: what the two fetches settle to *)

\* no position, or one position of each value
MonitorPositionLists ==
    {<<>>} \cup {<<RawPosition(DecStr(c, 2), TRUE)>> : c \in PosCents}

\* short lists of distinct trades, newest (highest id) last, and a list longer
\* than the cap of recentTrades
MonitorTradeLists ==
    {t \in SeqUpTo({RawTrade(id, TRUE) : id \in TradeIds}, Cardinality(TradeIds)) :
        \A i, j \in 1..Len(t) : i < j => t[i].id < t[j].id}
    \cup {[i \in 1..(RecentCap + MaxExtra) |-> RawTrade(i, TRUE)]}

FailurePairs ==
    {<<FailResponse(NotFound), FailResponse(NotFound)>>,
     <<FailResponse(500), FailResponse(500)>>}

PositionsResults ==
    {getUserPositions(OkResponse(d), NotIssued) : d \in MonitorPositionLists}
    \cup {getUserPositions(f[1], f[2]) : f \in FailurePairs}

TradesResults ==
    {getUserTrades(OkResponse(d), NotIssued) : d \in MonitorTradeLists}
    \cup {getUserTrades(f[1], f[2]) : f \in FailurePairs}

\* what the fetches of a direct getStatus() call settle to: a failure, or the
\* longest and most valuable list (getStatus itself is exercised on every
\* result by the cycles)
DirectPositionsResults ==
    {r \in PositionsResults :
        \/ r.state = "rejected"
        \/ /\ r.state = "fulfilled"
           /\ \A q \in PositionsResults :
                 q.state = "fulfilled" =>
                    parseFloat(q.value.totalValue) <= parseFloat(r.value.totalValue)}

DirectTradesResults ==
    {r \in TradesResults :
        r.state = "rejected" \/ Len(r.value.trades) > RecentCap}

----------------------------------------------------------------------------
(* Monitor: lifecycle and polling cycle *)

\* a variant that accepts any target address
constructorThrows_Never(address) == FALSE

\* if (!this.options.targetAddress) throw new Error('Target address is required')
constructorThrows(address) == address = ""

\* the constructor returned, so there is a monitor whose methods can be called
Constructed == ~constructorThrows(targetAddress)

\* target addresses given to the constructor: none, or a wallet address
Addresses == {"", "0xA"}

NoEvent ==
    [op |-> "none", noop |-> FALSE, origin |-> "none", status |-> <<>>,
     fetched |-> <<>>, updates |-> <<>>, errors |-> 0, rule |-> "none",
     posState |-> "none", trdState |-> "none",
     fetchedPos |-> EmptyPositions, cbThrew |-> FALSE]

Cycle(origin) == [origin |-> origin, stage |-> "fetching"]

RemoveAt(s, i) == [j \in 1..(Len(s) - 1) |-> IF j < i THEN s[j] ELSE s[j + 1]]

MonitorInit ==
    /\ targetAddress \in Addresses
    /\ isMonitoring = FALSE
    /\ pollIntervalId = 0
    /\ lastStatus = <<>>
    /\ lastTradeIds = {}
    /\ timers = {}
    /\ timersCreated = 0
    /\ startsRun = 0
    /\ cycles = <<>>
    /\ ev = NoEvent

\* a variant without the isMonitoring guard
Start_NoGuard ==
    /\ Constructed
    /\ startsRun < MaxStarts + 1
    /\ Len(cycles) < MaxInFlight
    /\ isMonitoring' = TRUE
    /\ startsRun' = startsRun + 1
    /\ cycles' = Append(cycles, Cycle("start"))
    /\ ev' = [NoEvent EXCEPT !.op = "start"]
    /\ UNCHANGED <<pollIntervalId, lastStatus, lastTradeIds, timers, timersCreated>>
    /\ UNCHANGED <<targetAddress, clientVars, marketVars>>

\* start(), up to its await: a no-op when already monitoring, else it sets the
\* flag and issues the fetches of the initial updateStatus()
Start ==
    /\ Constructed
    /\ IF isMonitoring
       THEN /\ ev' = [NoEvent EXCEPT !.op = "start", !.noop = TRUE]
            /\ UNCHANGED <<isMonitoring, startsRun, cycles>>
       ELSE /\ startsRun < MaxStarts
            /\ Len(cycles) < MaxInFlight
            /\ isMonitoring' = TRUE
            /\ startsRun' = startsRun + 1
            /\ cycles' = Append(cycles, Cycle("start"))
            /\ ev' = [NoEvent EXCEPT !.op = "start"]
    /\ UNCHANGED <<pollIntervalId, lastStatus, lastTradeIds, timers, timersCreated>>
    /\ UNCHANGED <<targetAddress, clientVars, marketVars>>

\* start(), after its await: arms the repeating timer
StartResume(i) ==
    /\ Constructed
    /\ i \in 1..Len(cycles)
    /\ cycles[i].stage = "resuming"
    /\ timersCreated' = timersCreated + 1
    /\ pollIntervalId' = timersCreated + 1
    /\ timers' = timers \cup {timersCreated + 1}
    /\ cycles' = RemoveAt(cycles, i)
    /\ ev' = [NoEvent EXCEPT !.op = "arm"]
    /\ UNCHANGED <<isMonitoring, lastStatus, lastTradeIds, startsRun>>
    /\ UNCHANGED <<targetAddress, clientVars, marketVars>>

\* a variant that also abandons the invocations in flight
Stop_CancelsInFlight ==
    /\ Constructed
    /\ IF ~isMonitoring
       THEN /\ ev' = [NoEvent EXCEPT !.op = "stop", !.noop = TRUE]
            /\ UNCHANGED <<isMonitoring, pollIntervalId, timers, cycles>>
       ELSE /\ isMonitoring' = FALSE
            /\ IF pollIntervalId # 0
               THEN /\ timers' = timers \ {pollIntervalId}
                    /\ pollIntervalId' = 0
               ELSE UNCHANGED <<timers, pollIntervalId>>
            /\ cycles' = <<>>
            /\ ev' = [NoEvent EXCEPT !.op = "stop"]
    /\ UNCHANGED <<lastStatus, lastTradeIds, timersCreated, startsRun>>
    /\ UNCHANGED <<targetAddress, clientVars, marketVars>>

\* stop()
Stop ==
    /\ Constructed
    /\ IF ~isMonitoring
       THEN /\ ev' = [NoEvent EXCEPT !.op = "stop", !.noop = TRUE]
            /\ UNCHANGED <<isMonitoring, pollIntervalId, timers>>
       ELSE /\ isMonitoring' = FALSE
            /\ IF pollIntervalId # 0
               THEN /\ timers' = timers \ {pollIntervalId}
                    /\ pollIntervalId' = 0
               ELSE UNCHANGED <<timers, pollIntervalId>>
            /\ ev' = [NoEvent EXCEPT !.op = "stop"]
    /\ UNCHANGED <<lastStatus, lastTradeIds, timersCreated, startsRun, cycles>>
    /\ UNCHANGED <<targetAddress, clientVars, marketVars>>

\* an armed timer fires: updateStatus() is called and issues its fetches
TimerTick ==
    /\ Constructed
    /\ timers # {}
    /\ Len(cycles) < MaxInFlight
    /\ cycles' = Append(cycles, Cycle("timer"))
    /\ ev' = [NoEvent EXCEPT !.op = "tick"]
    /\ UNCHANGED <<isMonitoring, pollIntervalId, lastStatus, lastTradeIds, timers,
                   timersCreated, startsRun>>
    /\ UNCHANGED <<targetAddress, clientVars, marketVars>>

\* an armed timer fires while earlier updateStatus() invocations are still
\* awaiting their fetches: the interval callback calls updateStatus() regardless
TimerTickOverlapping ==
    /\ Constructed
    /\ timers # {}
    /\ cycles # <<>>
    /\ Len(cycles) < MaxInFlight + 1
    /\ cycles' = Append(cycles, Cycle("timer"))
    /\ ev' = [NoEvent EXCEPT !.op = "tick"]
    /\ UNCHANGED <<isMonitoring, pollIntervalId, lastStatus, lastTradeIds, timers,
                   timersCreated, startsRun>>
    /\ UNCHANGED <<targetAddress, clientVars, marketVars>>

\* a variant that stores every snapshot it builds
storedStatus_LastObserved(notify, status, last) == <<status>>

\* lastStatus after updateStatus: assigned only next to the onUpdate call
storedStatus(notify, status, last) == IF notify THEN <<status>> ELSE last

\* a variant without the catch: a throwing start cycle rejects start()
cyclesAfter_Uncaught(cyc, i, threw) ==
    IF cyc[i].origin = "start" /\ ~threw
    THEN [cyc EXCEPT ![i].stage = "resuming"]
    ELSE RemoveAt(cyc, i)

\* the invocations in flight once updateStatus() number i has returned: it
\* catches what was thrown, so the start() awaiting it always resumes
cyclesAfter(cyc, i, threw) ==
    IF cyc[i].origin = "start"
    THEN [cyc EXCEPT ![i].stage = "resuming"]
    ELSE RemoveAt(cyc, i)

\* updateStatus(), after its await: both fetches of cycle i have settled; the
\* snapshot is built, compared and, on a change, stored and handed to onUpdate.
\* cbThrows: onUpdate throws, which the catch hands to onError.
\* Of several identical pending invocations the first stands for all of them.
UpdateStatus(i, posRes, trdRes, cbThrows) ==
    /\ Constructed
    /\ i \in 1..Len(cycles)
    /\ cycles[i].stage = "fetching"
    /\ \A j \in 1..(i - 1) : cycles[j] # cycles[i]
    /\ LET status == getStatus(posRes, trdRes)
           d == detectChanges(lastStatus, lastTradeIds, status)
           notify == shouldNotify(d.changed, lastStatus)
       IN  /\ cbThrows => notify
           /\ lastTradeIds' = d.tradeIds
           /\ lastStatus' = storedStatus(notify, status, lastStatus)
           /\ ev' = [op |-> "cycle", noop |-> FALSE, origin |-> cycles[i].origin,
                     status |-> <<status>>, fetched |-> fetchedTrades(trdRes),
                     updates |-> IF notify THEN <<status>> ELSE <<>>,
                     errors |-> IF cbThrows THEN 1 ELSE 0,
                     rule |-> d.rule,
                     posState |-> posRes.state, trdState |-> trdRes.state,
                     fetchedPos |-> fetchedPositions(posRes), cbThrew |-> cbThrows]
    /\ cycles' = cyclesAfter(cycles, i, cbThrows)
    /\ UNCHANGED <<isMonitoring, pollIntervalId, timers, timersCreated, startsRun>>
    /\ UNCHANGED <<targetAddress, clientVars, marketVars>>

\* a variant that keeps the snapshot it returns as lastStatus
GetStatus_StoresSnapshot(posRes, trdRes) ==
    /\ Constructed
    /\ ev' = [NoEvent EXCEPT !.op = "getStatus",
                             !.status = <<getStatus(posRes, trdRes)>>,
                             !.fetched = fetchedTrades(trdRes),
                             !.posState = posRes.state, !.trdState = trdRes.state,
                             !.fetchedPos = fetchedPositions(posRes)]
    /\ lastStatus' = <<getStatus(posRes, trdRes)>>
    /\ UNCHANGED <<isMonitoring, pollIntervalId, lastTradeIds, timers,
                   timersCreated, startsRun, cycles>>
    /\ UNCHANGED <<targetAddress, clientVars, marketVars>>

\* a variant that hands a failed fetch to onError and throws it
GetStatus_Propagates(posRes, trdRes) ==
    /\ Constructed
    /\ ev' = IF posRes.state = "rejected" \/ trdRes.state = "rejected"
             THEN [NoEvent EXCEPT !.op = "getStatus", !.errors = 1,
                                  !.posState = posRes.state, !.trdState = trdRes.state]
             ELSE [NoEvent EXCEPT !.op = "getStatus",
                                  !.status = <<getStatus(posRes, trdRes)>>,
                                  !.fetched = fetchedTrades(trdRes),
                                  !.posState = posRes.state, !.trdState = trdRes.state,
                                  !.fetchedPos = fetchedPositions(posRes)]
    /\ UNCHANGED <<isMonitoring, pollIntervalId, lastStatus, lastTradeIds, timers,
                   timersCreated, startsRun, cycles>>
    /\ UNCHANGED <<targetAddress, clientVars, marketVars>>

\* a direct getStatus() call by the caller, from its fetches to its return:
\* ev.status is the snapshot it returns (none if it threw), ev.errors the
\* number of onError calls it made
GetStatus(posRes, trdRes) ==
    /\ Constructed
    /\ ev' = [NoEvent EXCEPT !.op = "getStatus",
                             !.status = <<getStatus(posRes, trdRes)>>,
                             !.fetched = fetchedTrades(trdRes),
                             !.posState = posRes.state, !.trdState = trdRes.state,
                             !.fetchedPos = fetchedPositions(posRes)]
    /\ UNCHANGED <<isMonitoring, pollIntervalId, lastStatus, lastTradeIds, timers,
                   timersCreated, startsRun, cycles>>
    /\ UNCHANGED <<targetAddress, clientVars, marketVars>>

Init == MonitorInit /\ ClientInit /\ MarketInit

Next ==
    \/ Start
    \/ Stop
    \/ \E i \in 1..MaxInFlight : StartResume(i)
    \/ TimerTick
    \/ \E i \in 1..MaxInFlight, p \in PositionsResults, t \in TradesResults, c \in BOOLEAN :
          UpdateStatus(i, p, t, c)
    \/ \E p \in DirectPositionsResults, t \in DirectTradesResults : GetStatus(p, t)

\* the monitor, driven by its caller, its timers and the settling fetches
Spec == Init /\ [][Next]_vars

\* the monitor when fetches may outlast the poll interval: a timer may fire with
\* invocations in flight, up to one more than in Spec
OverlapNext ==
    \/ Next
    \/ TimerTickOverlapping

OverlapSpec == Init /\ [][OverlapNext]_vars

\* one API client call after another
ClientSpec == Init /\ [][ClientNext]_vars

\* one market call after another
MarketSpec == Init /\ [][MarketNext]_vars

----------------------------------------------------------------------------
(* Claims about the monitor's lifecycle *)

StartCyclesInFlight == {i \in 1..Len(cycles) : cycles[i].origin = "start"}

\* C1: once stop() has taken effect and until start() is called again
\* (isMonitoring is false), no repeating timer is armed and no timer-driven
\* cycle begins, whenever stop() was called relative to start().
C1_StoppedMeansNoTimer ==
    ~isMonitoring => (timers = {} /\ ev.op # "tick")

\* C2: a start() call made while the monitor is running is a no-op: it issues no
\* fetch, arms no timer, raises no error and changes no field; a start() call
\* that passes the guard begins exactly one cycle and arms nothing itself, and
\* every such call accounts for exactly one initial cycle or one armed timer.
C2_StartWhileRunningIsNoOp ==
    /\ [][(ev'.op = "start" /\ isMonitoring) =>
            /\ ev'.noop /\ ev'.errors = 0
            /\ UNCHANGED <<isMonitoring, pollIntervalId, lastStatus, lastTradeIds,
                           timers, timersCreated, startsRun, cycles>>]_vars
    /\ [][(ev'.op = "start" /\ ~isMonitoring) =>
            /\ Len(cycles') = Len(cycles) + 1
            /\ UNCHANGED <<pollIntervalId, timers, timersCreated>>]_vars
    /\ [](startsRun = timersCreated + Cardinality(StartCyclesInFlight))

\* a second start() arrived while the first was still awaiting its initial cycle
C2_Witness ==
    /\ ev.op = "start" /\ ev.noop
    /\ isMonitoring
    /\ \E i \in 1..Len(cycles) : cycles[i].origin = "start" /\ cycles[i].stage = "fetching"
    /\ timers = {}

----------------------------------------------------------------------------
(* Claims about the polling cycle and the change detector *)

\* C3: between cycles the retained trade-id set equals the ids of the
\* recentTrades of the last delivered snapshot, and is empty when there is none.
C3_RetainedIdsAreLastStatusIds ==
    lastTradeIds = (IF lastStatus = <<>> THEN {} ELSE IdsOf(lastStatus[1].recentTrades))

\* C4: in a cycle with a previous delivered snapshot whose totalPositions and
\* trade-id set equal the current snapshot's, onUpdate is invoked exactly when
\* the value moved by more than 1% of max(previous value, 0.01).
C4_SameTradesAndCountNotifyIffValue ==
    [][(/\ ev'.op = "cycle"
        /\ lastStatus # <<>>
        /\ ev'.status[1].totalPositions = lastStatus[1].totalPositions
        /\ IdsOf(ev'.status[1].recentTrades) = IdsOf(lastStatus[1].recentTrades))
       => ((ev'.updates # <<>>) <=>
           (100 * Abs(parseFloat(ev'.status[1].totalValue)
                      - parseFloat(lastStatus[1].totalValue))
              > Max(parseFloat(lastStatus[1].totalValue), 1)))]_vars

\* C5: a cycle whose snapshot has a trade id that is not among the last
\* delivered snapshot's recentTrades, or a different totalPositions, hands that
\* snapshot to onUpdate in that same cycle.
C5_NewTradeOrCountNotifiesAtOnce ==
    [][(/\ ev'.op = "cycle"
        /\ lastStatus # <<>>
        /\ \/ ~(IdsOf(ev'.status[1].recentTrades) \subseteq IdsOf(lastStatus[1].recentTrades))
           \/ ev'.status[1].totalPositions # lastStatus[1].totalPositions)
       => (ev'.updates = ev'.status /\ lastStatus' = ev'.status)]_vars

\* C6: a cycle that completes while no snapshot has been delivered hands its
\* snapshot to onUpdate exactly once and stores it as lastStatus, whatever
\* was fetched.
C6_FirstCycleAlwaysDelivers ==
    [][(ev'.op = "cycle" /\ lastStatus = <<>>) =>
          /\ Len(ev'.status) = 1
          /\ ev'.updates = ev'.status
          /\ lastStatus' = ev'.status]_vars

\* the first delivery was built from the defaults that replace two failed fetches
C6_Witness ==
    /\ ev.op = "cycle" /\ ev.rule = "first"
    /\ ev.posState = "rejected" /\ ev.trdState = "rejected"
    /\ ev.updates = ev.status
    /\ lastStatus = ev.status
    /\ lastStatus[1].totalPositions = 0 /\ lastStatus[1].recentTrades = <<>>

\* C7: in a cycle with a previous snapshot, a trade id of the current snapshot
\* that is absent from the retained set makes the cycle notify and replaces the
\* retained set by exactly the current ids; every other cycle (the first one,
\* and those notifying for a count or value change) leaves the set unchanged.
C7_RetainedIdsReplacedOnlyOnNewTrade ==
    [][ev'.op = "cycle" =>
          IF /\ lastStatus # <<>>
             /\ \E id \in IdsOf(ev'.status[1].recentTrades) : id \notin lastTradeIds
          THEN /\ ev'.updates = ev'.status
               /\ lastTradeIds' = IdsOf(ev'.status[1].recentTrades)
          ELSE lastTradeIds' = lastTradeIds]_vars

\* a cycle found a new trade and the retained set is now that snapshot's ids
C7_Witness ==
    /\ ev.op = "cycle" /\ ev.rule = "trades"
    /\ ev.updates = ev.status
    /\ lastTradeIds = {2}

\* C8: every snapshot returned by getStatus() or handed to onUpdate holds the
\* first min(10, n) of the n fetched trades, in order.
C8_RecentTradesAreFirstTen ==
    /\ ev.status # <<>> =>
          /\ Len(ev.status[1].recentTrades) <= RecentCap
          /\ ev.status[1].recentTrades =
                SubSeq(ev.fetched, 1, Min(RecentCap, Len(ev.fetched)))
    /\ ev.updates # <<>> => ev.updates = ev.status
    /\ lastStatus # <<>> => Len(lastStatus[1].recentTrades) <= RecentCap

\* a delivered snapshot was cut down from a longer fetched list
C8_Witness ==
    /\ ev.op = "cycle"
    /\ Len(ev.fetched) > RecentCap
    /\ ev.updates # <<>>
    /\ Len(ev.updates[1].recentTrades) = RecentCap

----------------------------------------------------------------------------
(* Claims about the API client *)

BothShapesFailed ==
    /\ clStage = "done"
    /\ ~clPrimary.ok
    /\ ~clAlt.ok /\ clAlt # NotIssued

EmptyResultOf(op) ==
    IF op = "positions"
    THEN Fulfilled([positions |-> <<>>, totalValue |-> DecStr(0, 0)])
    ELSE Fulfilled([trades |-> <<>>, totalTrades |-> 0])

\* C9: when both request shapes fail with not-found, the call returns the
\* empty result ({positions: [], totalValue: "0"} or {trades: [], totalTrades: 0})
\* and raises nothing.
C9_BothNotFoundGivesEmpty ==
    (BothShapesFailed /\ clPrimary.status = NotFound /\ clAlt.status = NotFound)
        => clResult = EmptyResultOf(clOp)

C9_Witness ==
    /\ BothShapesFailed
    /\ clPrimary.status = NotFound /\ clAlt.status = NotFound
    /\ clOp = "positions"
    /\ clResult.state = "fulfilled"

\* C10: when both request shapes fail and the failures are not both not-found,
\* the call fails with a wrapped error naming the operation; the empty result
\* is returned only when both failures are not-found.
C10_EmptyOnlyWhenBothNotFound ==
    BothShapesFailed =>
        IF clPrimary.status = NotFound /\ clAlt.status = NotFound
        THEN clResult = EmptyResultOf(clOp)
        ELSE /\ clResult.state = "rejected"
             /\ clResult.reason[1].kind = "wrapped"
             /\ clResult.reason[1].op = clOp

----------------------------------------------------------------------------
(* Claims about failures inside a cycle *)

\* C11: a timer-driven cycle in which exactly one of the two fetches failed is
\* not aborted and does not invoke onError for it: its snapshot has the empty
\* default for the failed half (no positions and totalValue "0", or no trades)
\* and the fetched data for the other half, and the change detector decides
\* about it as about any other snapshot.
C11_OneFailedFetchKeepsOtherHalf ==
    (/\ ev.op = "cycle" /\ ev.origin = "timer"
     /\ (ev.posState = "rejected") # (ev.trdState = "rejected"))
    => /\ Len(ev.status) = 1
       /\ ev.errors > 0 => ev.cbThrew
       /\ (ev.updates = <<>>) <=> (ev.rule = "none")
       /\ ev.updates # <<>> => ev.updates = ev.status
       /\ IF ev.posState = "rejected"
          THEN /\ ev.status[1].openPositions = <<>>
               /\ ev.status[1].totalPositions = 0
               /\ ev.status[1].totalValue = DecStr(0, 0)
               /\ ev.fetched # <<>> => ev.status[1].recentTrades # <<>>
               /\ \A i \in 1..Len(ev.status[1].recentTrades) :
                     ev.status[1].recentTrades[i] = ev.fetched[i]
          ELSE /\ ev.status[1].recentTrades = <<>>
               /\ ev.status[1].openPositions = ev.fetchedPos.positions
               /\ ev.status[1].totalPositions = Len(ev.fetchedPos.positions)
               /\ ev.status[1].totalValue = ev.fetchedPos.totalValue

\* the positions fetch failed, the fetched trade was new and was delivered
C11_Witness ==
    /\ ev.op = "cycle" /\ ev.origin = "timer"
    /\ ev.posState = "rejected" /\ ev.trdState = "fulfilled"
    /\ ev.errors = 0
    /\ ev.rule = "trades"
    /\ ev.updates # <<>>
    /\ ev.updates[1].totalValue = DecStr(0, 0)
    /\ Len(ev.updates[1].recentTrades) > 0

\* C12 as stated: a direct getStatus() call one of whose fetches failed hands
\* the error to onError, throws it, and returns no snapshot.
C12_DirectGetStatusRaises ==
    (ev.op = "getStatus" /\ (ev.posState = "rejected" \/ ev.trdState = "rejected"))
    => (ev.errors = 1 /\ ev.status = <<>>)

\* C12, amended: a direct getStatus() call one of whose fetches failed does not
\* invoke onError and throws nothing: it returns a snapshot with the empty
\* default for each failed half and the fetched data for the other.
C12_DirectGetStatusSubstitutesDefaults ==
    (ev.op = "getStatus" /\ (ev.posState = "rejected" \/ ev.trdState = "rejected"))
    => /\ ev.errors = 0
       /\ Len(ev.status) = 1
       /\ IF ev.posState = "rejected"
          THEN /\ ev.status[1].openPositions = <<>>
               /\ ev.status[1].totalPositions = 0
               /\ ev.status[1].totalValue = DecStr(0, 0)
          ELSE /\ ev.status[1].openPositions = ev.fetchedPos.positions
               /\ ev.status[1].totalValue = ev.fetchedPos.totalValue
       /\ IF ev.trdState = "rejected"
          THEN ev.status[1].recentTrades = <<>>
          ELSE /\ ev.status[1].recentTrades # <<>>
               /\ \A i \in 1..Len(ev.status[1].recentTrades) :
                     ev.status[1].recentTrades[i] = ev.fetched[i]

\* a direct call whose trades fetch failed with a server error returned the
\* fetched position and no trades
C12_Witness ==
    /\ ev.op = "getStatus"
    /\ ev.trdState = "rejected" /\ ev.posState = "fulfilled"
    /\ ev.errors = 0
    /\ Len(ev.status) = 1
    /\ ev.status[1].totalPositions = 1
    /\ ev.status[1].recentTrades = <<>>

\* C13: what onUpdate throws in a cycle is handed to onError once and goes no
\* further: the cycle ends like any other, no timer is disarmed, a start()
\* awaiting the cycle resumes and can arm its timer, and a timer-driven cycle
\* leaves the timer that fired it able to fire again.
C13_CycleErrorIsCaught ==
    /\ [][(ev'.op = "cycle" /\ ev'.cbThrew) =>
            /\ ev'.errors = 1
            /\ UNCHANGED <<timers, pollIntervalId, isMonitoring>>
            /\ IF ev'.origin = "start"
               THEN /\ Len(cycles') = Len(cycles)
                    /\ \E i \in 1..Len(cycles') :
                          cycles'[i] = [origin |-> "start", stage |-> "resuming"]
               ELSE Len(cycles') = Len(cycles) - 1]_vars
    /\ [](\A i \in 1..Len(cycles) :
            cycles[i].stage = "resuming" => ENABLED StartResume(i))
    /\ []((timers # {} /\ Len(cycles) < MaxInFlight) => ENABLED TimerTick)
    /\ [][ev'.op = "arm" => (pollIntervalId' \in timers' /\ timers \subseteq timers')]_vars

\* onUpdate threw in a timer-driven cycle and the timer is still armed
C13_Witness ==
    /\ ev.op = "cycle" /\ ev.origin = "timer"
    /\ ev.cbThrew /\ ev.errors = 1
    /\ timers # {}
    /\ cycles = <<>>

----------------------------------------------------------------------------
(* Claims about stop() and cycles in flight *)

\* C14: stop() leaves the cycles in flight alone, and a cycle that completes
\* while isMonitoring is false still builds its snapshot and, when the change
\* detector reports a change, stores it as lastStatus and hands it to onUpdate,
\* with isMonitoring still false afterwards.
C14_StopDoesNotCancelCycleInFlight ==
    /\ [][ev'.op = "stop" => cycles' = cycles]_vars
    /\ [][(ev'.op = "cycle" /\ ~isMonitoring) =>
            /\ ~isMonitoring'
            /\ Len(ev'.status) = 1
            /\ ev'.rule # "none" => (ev'.updates = ev'.status /\ lastStatus' = ev'.status)
            /\ Len(cycles') <= Len(cycles)]_vars

\* the initial cycle of a start() completed after stop() and delivered
C14_Witness ==
    /\ ev.op = "cycle" /\ ev.origin = "start"
    /\ ~isMonitoring
    /\ ev.updates # <<>>
    /\ lastStatus = ev.updates

----------------------------------------------------------------------------
(* Claims about the market calls *)

\* the positions in the input whose getMarket succeeded
MarketsFetched == {i \in 1..Len(mkIds) : mkResponses[i].ok /\ mkResponses[i].data # <<>>}

\* C15: getMarkets(ids) never fails: it returns the normalized markets of
\* exactly the ids whose own fetch succeeded, in input order, and the empty
\* sequence when every id failed; getMarket(id) fails with a wrapped error
\* on every failure, not-found included.
C15_GetMarketsDropsFailures ==
    /\ (mkStage = "done" /\ mkOp = "getMarkets") =>
          /\ mkResult.state = "fulfilled"
          /\ Len(mkResult.value) = Cardinality(MarketsFetched)
          /\ \A i \in MarketsFetched :
                LET k == Cardinality({j \in MarketsFetched : j <= i})
                    body == mkResponses[i].data[1]
                IN  mkResult.value[k].id =
                        (IF body.id # "" THEN body.id ELSE body.marketId)
    /\ (mkStage = "done" /\ mkOp = "getMarket") =>
          IF 1 \in MarketsFetched
          THEN mkResult.state = "fulfilled"
          ELSE /\ mkResult.state = "rejected"
               /\ mkResult.reason[1].kind = "wrapped"
               /\ mkResult.reason[1].op = "market"

\* of two ids the first was not found and the second came back
C15_Witness ==
    /\ mkStage = "done" /\ mkOp = "getMarkets"
    /\ mkIds = <<"m1", "m2">>
    /\ mkResponses[1].status = NotFound
    /\ mkResponses[2].ok
    /\ mkResult.state = "fulfilled"
    /\ Len(mkResult.value) = 1
    /\ mkResult.value[1].id = "m2"

----------------------------------------------------------------------------
(* Claims about normalization *)

\* a call that returned after one of its two requests came back with a body
FetchedData == IF clPrimary.ok THEN clPrimary.data ELSE clAlt.data
Fetched == clStage = "done" /\ (clPrimary.ok \/ clAlt.ok)

\* C16: normalizing the raw items of a response never fails, whichever fields
\* an item lacks: the call succeeds with one record per item, in order.
C16_NormalizationNeverFails ==
    Fetched =>
        /\ clResult.state = "fulfilled"
        /\ Len(IF clOp = "positions" THEN clResult.value.positions
                                     ELSE clResult.value.trades) = Len(FetchedData)

\* the sum, in cents, of the values that are numbers
RECURSIVE SumOfNumericValues(_)
SumOfNumericValues(ps) ==
    IF ps = <<>> THEN 0
    ELSE (IF Head(ps).value.decimals >= 0 THEN Head(ps).value.cents ELSE 0)
         + SumOfNumericValues(Tail(ps))

\* a snapshot without positions or trades whose totalValue is tv
EmptySnapshot(tv) ==
    [totalPositions |-> 0, totalValue |-> tv, recentTrades |-> <<>>,
     openPositions |-> <<>>]

\* C17: the totalValue of a fetched position list is the sum of the positions'
\* values, a value that is not a number counting as 0, written with six
\* decimals ("0.000000" for an empty list); the not-found path gives "0"; and
\* the change detector sees no change between "0" and "0.000000".
C17_TotalValueIsSixDecimalSum ==
    /\ (Fetched /\ clOp = "positions" /\ clResult.state = "fulfilled") =>
          clResult.value.totalValue =
              [cents |-> SumOfNumericValues(clResult.value.positions), decimals |-> 6]
    /\ (Fetched /\ clOp = "positions" /\ FetchedData = <<>>) =>
          /\ clResult.state = "fulfilled"
          /\ clResult.value.totalValue = [cents |-> 0, decimals |-> 6]
    /\ (BothShapesFailed /\ clOp = "positions" /\ clResult.state = "fulfilled") =>
          clResult.value.totalValue = [cents |-> 0, decimals |-> 0]
    /\ ~detectChanges(<<EmptySnapshot([cents |-> 0, decimals |-> 0])>>, {},
                      EmptySnapshot([cents |-> 0, decimals |-> 6])).changed
    /\ ~detectChanges(<<EmptySnapshot([cents |-> 0, decimals |-> 6])>>, {},
                      EmptySnapshot([cents |-> 0, decimals |-> 0])).changed

\* a list of a $100.50 position and one whose value is not a number totals
\* "100.500000"
C17_Witness ==
    /\ Fetched /\ clOp = "positions" /\ clResult.state = "fulfilled"
    /\ Len(clResult.value.positions) = 2
    /\ clResult.value.positions[1].value = [cents |-> 10050, decimals |-> 2]
    /\ clResult.value.positions[2].value.decimals < 0
    /\ clResult.value.totalValue = [cents |-> 10050, decimals |-> 6]

\* C18: a normalized position's value is the item's own value when it has a
\* non-empty one; otherwise quantity x price written with six decimals, the
\* quantity being the item's quantity, else its size, else "0", and the price
\* its price, else its lastPrice, else "0"; and "0" when one of the two is not
\* a number.
C18_PositionValueGivenOrComputed ==
    (Fetched /\ clOp = "positions" /\ clResult.state = "fulfilled") =>
        \A i \in 1..Len(FetchedData) :
            LET raw == FetchedData[i]
                has(f) == f # <<>> /\ f[1].decimals # -2
                q == IF has(raw.quantity) THEN raw.quantity[1]
                     ELSE IF has(raw.size) THEN raw.size[1]
                     ELSE [cents |-> 0, decimals |-> 0]
                p == IF has(raw.price) THEN raw.price[1]
                     ELSE IF has(raw.lastPrice) THEN raw.lastPrice[1]
                     ELSE [cents |-> 0, decimals |-> 0]
                value == clResult.value.positions[i].value
            IN  IF has(raw.value) THEN value = raw.value[1]
                ELSE IF q.decimals < 0 \/ p.decimals < 0
                THEN value = [cents |-> 0, decimals |-> 0]
                ELSE value = [cents |-> (q.cents * p.cents) \div 100, decimals |-> 6]

\* quantity "10" and price "2.5" without a value give "25.000000"
C18_Witness ==
    /\ Fetched /\ clOp = "positions" /\ clResult.state = "fulfilled"
    /\ Len(FetchedData) = 1
    /\ FetchedData[1].value = <<>>
    /\ FetchedData[1].quantity = <<[cents |-> 1000, decimals |-> 0]>>
    /\ FetchedData[1].price = <<[cents |-> 250, decimals |-> 1]>>
    /\ clResult.value.positions[1].value = [cents |-> 2500, decimals |-> 6]

----------------------------------------------------------------------------
(* Claims about construction *)

\* C19: with a missing or empty targetAddress the constructor throws, so there
\* is no monitor to call: no fetch is issued, no timer is armed, no callback is
\* invoked and no field ever changes.
C19_NoAddressNoMonitor ==
    targetAddress = "" =>
        /\ cycles = <<>> /\ ev = NoEvent
        /\ timers = {} /\ timersCreated = 0 /\ pollIntervalId = 0
        /\ ~isMonitoring /\ startsRun = 0
        /\ lastStatus = <<>> /\ lastTradeIds = {}

\* construction without an address failed and nothing can be called
C19_Witness ==
    /\ targetAddress = ""
    /\ constructorThrows(targetAddress)
    /\ ~ENABLED Start
    /\ ~ENABLED Next

----------------------------------------------------------------------------
(* Claims about delivery *)

\* C20: a cycle invokes onUpdate at most once; it replaces lastStatus exactly
\* when it invokes onUpdate, by the snapshot it hands over; a cycle whose
\* change detector finds no change invokes neither callback and leaves
\* lastStatus as it was, so the value rule compares with the last delivered
\* snapshot.
C20_StoredIffDelivered ==
    /\ [][ev'.op = "cycle" =>
            /\ Len(ev'.updates) <= 1
            /\ IF ev'.updates # <<>>
               THEN ev'.updates = ev'.status /\ lastStatus' = ev'.updates
               ELSE /\ lastStatus' = lastStatus
                    /\ lastStatus # <<>>
                    /\ ev'.errors = 0
            /\ ev'.rule = "none" =>
                  (ev'.updates = <<>> /\ ev'.errors = 0 /\ lastStatus' = lastStatus)]_vars
    /\ [][(/\ ev'.op = "cycle"
            /\ lastStatus # <<>>
            /\ ev'.status[1].totalPositions = lastStatus[1].totalPositions
            /\ IdsOf(ev'.status[1].recentTrades) \subseteq lastTradeIds)
           => ((ev'.updates # <<>>) <=>
               (100 * Abs(ev'.status[1].totalValue.cents - lastStatus[1].totalValue.cents)
                  > Max(lastStatus[1].totalValue.cents, 1)))]_vars

\* a cycle observed a value half a percent off the delivered one and kept
\* the delivered snapshot
C20_Witness ==
    /\ ev.op = "cycle" /\ ev.rule = "none"
    /\ ev.updates = <<>> /\ ev.errors = 0
    /\ lastStatus # <<>>
    /\ lastStatus # ev.status
    /\ ev.status[1].totalValue.cents # lastStatus[1].totalValue.cents

----------------------------------------------------------------------------
(* Claims about overlapping cycles and timers *)

\* C21: at most one cycle is in flight at any time: a timer tick starts a
\* cycle only when no earlier cycle is still awaiting its fetches, and a cycle
\* completes, updating lastStatus and lastTradeIds, only when no other cycle is
\* awaiting its fetches.
C21_OneCycleInFlight ==
    /\ Len(cycles) <= 1
    /\ ev.op = "tick" => Len(cycles) = 1
    /\ ev.op = "cycle" => \A i \in 1..Len(cycles) : cycles[i].stage # "fetching"

\* C22: whatever the interleaving of start() and stop(), at most one repeating
\* timer is armed, an armed timer is the one pollIntervalId names (the one
\* stop() would clear), and a timer is armed only while isMonitoring is true.
C22_OneTimerOnlyWhileRunning ==
    /\ Cardinality(timers) <= 1
    /\ \A h \in timers : h = pollIntervalId
    /\ timers # {} => isMonitoring

----------------------------------------------------------------------------
(* Claims about the order of the two request shapes *)

\* C23: the fallback request is issued only after the primary request has
\* failed, never after a primary success (an empty list included); and when
\* both fail and neither failure is not-found, the error thrown wraps the
\* primary request's error.
C23_FallbackOnlyAfterPrimaryFailure ==
    /\ clPrimary.ok => clAlt = NotIssued
    /\ (clStage = "fallback" \/ clAlt # NotIssued) =>
          (~clPrimary.ok /\ clPrimary # NotIssued)
    /\ (BothShapesFailed /\ clPrimary.status # NotFound /\ clAlt.status # NotFound) =>
          /\ clResult.state = "rejected"
          /\ clResult.reason[1].kind = "wrapped"
          /\ clResult.reason[1].op = clOp
          /\ clResult.reason[1].cause =
                [kind |-> "http", attempt |-> "primary", status |-> clPrimary.status]

\* the primary request failed with a server error, the fallback had no
\* response at all, and the error thrown wraps the server error
C23_Witness ==
    /\ BothShapesFailed
    /\ clOp = "positions"
    /\ clPrimary.status = 500 /\ clAlt.status = 0
    /\ clResult.state = "rejected"
    /\ clResult.reason[1].cause.attempt = "primary"
    /\ clResult.reason[1].cause.status = 500

----------------------------------------------------------------------------
(* Claims about a direct getStatus() call *)

\* C24: a direct getStatus() call changes no field of the monitor and arms or
\* clears no timer, starts no cycle and does not invoke onUpdate, so the
\* change detector of the next cycle compares with the same lastStatus and
\* lastTradeIds as without the call.
C24_GetStatusChangesNothing ==
    [][ev'.op = "getStatus" =>
          /\ UNCHANGED <<lastStatus, lastTradeIds, isMonitoring, pollIntervalId,
                         timers, timersCreated, startsRun, cycles>>
          /\ ev'.updates = <<>>
          /\ Len(ev'.status) = 1]_vars

\* a running monitor with a delivered snapshot returned a different snapshot
\* from a direct call and kept the delivered one
C24_Witness ==
    /\ ev.op = "getStatus"
    /\ isMonitoring /\ timers # {}
    /\ lastStatus # <<>>
    /\ ev.status # lastStatus
    /\ ev.updates = <<>>

====
